---- MODULE Spec2Model ----
(***************************************************************************)
(* PromptCAD: the TechDrawEngine (symbol library, placement, Manhattan     *)
(* router, reset, export) drawing into the Canvas' SVG tree, and the App   *)
(* host that runs generated instruction sequences against it.              *)
(*                                                                         *)
(* The DOM is the tree the Canvas renders,                                 *)
(*     <div> -> grid <div>, <svg> -> <g transform=pan/zoom> -> <g ref>,    *)
(* kept as the children list of each node.  The engine holds references to *)
(* the <svg> (this.svg) and to the innermost group (this.rootGroup, which  *)
(* is also this.activeLayer).                                              *)
(*                                                                         *)
(* JavaScript numbers are IEEE doubles.  A number is kept as               *)
(*     n + h/2 + f * 2^-70      (n integer, h in 0..1, f integer)          *)
(* and every sum is rounded to 53 bits as the hardware does, so that       *)
(* Math.cos(90 deg) = 6.1e-17 (not 0) leaves its trace in the pins.        *)
(***************************************************************************)
EXTENDS Integers, Sequences, FiniteSets, TLC

VARIABLES
  dom,          \* children of each DOM node: container, svg, viewport, layer
  components,   \* TechDrawEngine.components: id -> ComponentInstance
  last,         \* the call that produced this state, with its arguments
  transform,    \* Canvas state: pan/zoom of the viewport group
  isDragging,   \* Canvas state
  dragStart,    \* Canvas ref
  messages,     \* App state: the chat transcript
  isLoading,    \* App state
  generatedCode, \* App state: the code shown in the drawer
  pending       \* generateSchematicCode calls awaiting their response

vars == <<dom, components, last, transform, isDragging, dragStart,
          messages, isLoading, generatedCode, pending>>

(***************************************************************************)
(* Bounds of the model.                                                    *)
(***************************************************************************)
MaxPrims == 5     \* primitives in the active layer
MaxGroups == 2    \* symbol groups in the active layer

(***************************************************************************)
(* IEEE-754 double arithmetic on the values the engine computes.           *)
(***************************************************************************)
Num(i) == [k |-> "num", n |-> i, h |-> 0, f |-> 0]
Tiny(t) == [k |-> "num", n |-> 0, h |-> 0, f |-> t]
Undefined == [k |-> "undefined", n |-> 0, h |-> 0, f |-> 0]
NaN == [k |-> "NaN", n |-> 0, h |-> 0, f |-> 0]

IsNum(a) == a.k = "num"
IsInt(a) == a.k = "num" /\ a.h = 0 /\ a.f = 0

\* Math.cos(Math.PI / 2) = 6.123233995736766e-17, in units of 2^-70.
CosHalfPi == 72290

\* The spacing of doubles in [1, 2), 2^-52, in units of 2^-70.
UlpOfOne == 2^18

Abs(i) == IF i < 0 THEN -i ELSE i

Log2Floor(a) == CHOOSE e \in 0..20 : 2^e <= a /\ a < 2^(e + 1)

\* The spacing of doubles around n + f*2^-70 (n # 0), in units of 2^-70.
Ulp(n, f) ==
  LET a == Abs(n)
      e0 == Log2Floor(a)
      below == (n > 0 /\ f < 0) \/ (n < 0 /\ f > 0)
      e == IF below /\ a = 2^e0 THEN e0 - 1 ELSE e0
  IN IF e < 0 THEN UlpOfOne \div 2 ELSE UlpOfOne * 2^e

\* f rounded to the nearest multiple of u, ties to even.
RoundTo(f, u) ==
  LET q == f \div u
      r == f % u
  IN IF 2 * r < u THEN q * u
     ELSE IF 2 * r > u THEN (q + 1) * u
     ELSE IF q % 2 = 0 THEN q * u ELSE (q + 1) * u

Round(n, f) ==
  IF n = 0 THEN Tiny(f)
  ELSE [k |-> "num", n |-> n, h |-> 0, f |-> RoundTo(f, Ulp(n, f))]

FNeg(a) == IF IsNum(a) THEN [a EXCEPT !.n = -a.n, !.f = -a.f] ELSE NaN
FAdd(a, b) == IF IsNum(a) /\ IsNum(b) THEN Round(a.n + b.n, a.f + b.f) ELSE NaN
FSub(a, b) == FAdd(a, FNeg(b))
FMul(a, b) ==
  IF IsNum(a) /\ IsNum(b) THEN Round(a.n * b.n, a.n * b.f + a.f * b.n) ELSE NaN
FHalf(a) ==
  IF IsNum(a) THEN [k |-> "num", n |-> a.n \div 2, h |-> a.n % 2, f |-> a.f \div 2]
  ELSE NaN
FIsNeg(a) == a.n < 0 \/ (a.n = 0 /\ a.f < 0)
FAbs(a) == IF IsNum(a) THEN (IF FIsNeg(a) THEN FNeg(a) ELSE a) ELSE NaN
FGt(a, b) ==
  IsNum(a) /\ IsNum(b) /\ (a.n > b.n \/ (a.n = b.n /\ a.f > b.f))

\* Math.cos / Math.sin of (rotate * Math.PI) / 180 for the quarter turns.
MathCos(rotate) ==
  CASE rotate = 0 -> Num(1)
    [] rotate = 90 -> Tiny(CosHalfPi)
    [] rotate = 180 -> Num(-1)
    [] rotate = 270 -> Tiny(-3 * CosHalfPi)
    [] rotate = 360 -> Num(1)
    [] rotate = -90 -> Tiny(CosHalfPi)

MathSin(rotate) ==
  CASE rotate = 0 -> Num(0)
    [] rotate = 90 -> Num(1)
    [] rotate = 180 -> Tiny(2 * CosHalfPi)
    [] rotate = 270 -> Num(-1)
    [] rotate = 360 -> Tiny(-4 * CosHalfPi)
    [] rotate = -90 -> Num(-1)

(***************************************************************************)
(* types.ts                                                                *)
(***************************************************************************)
SymbolTypes ==
  {"resistor", "capacitor", "inductor", "diode", "led",
   "source_v", "source_i", "gnd", "opamp",
   "transistor_npn", "transistor_pnp", "mosfet_n", "mosfet_p",
   "gate_and", "gate_or", "gate_not", "gate_nand", "gate_nor", "gate_xor"}

CompositeTypes ==
  {"arduino_uno", "stepper_motor", "driver_stepper", "antenna", "ic_555"}

ComponentType == SymbolTypes \cup CompositeTypes

(***************************************************************************)
(* TechDrawEngine.drawSymbol: the elements appended to the group (by tag;  *)
(* stroke coordinates and classes are left out) and the relative pins.     *)
(***************************************************************************)
Lines(n) == [i \in 1..n |-> "line"]

drawSymbol(type) ==
  CASE type = "resistor" ->
         [geometry |-> <<"path">>,
          pins |-> [left |-> <<-30, 0>>, right |-> <<30, 0>>]]
    [] type = "capacitor" ->
         [geometry |-> Lines(4),
          pins |-> [left |-> <<-30, 0>>, right |-> <<30, 0>>]]
    [] type = "inductor" ->
         [geometry |-> <<"path">>,
          pins |-> [left |-> <<-30, 0>>, right |-> <<30, 0>>]]
    [] type = "diode" ->
         [geometry |-> <<"path">> \o Lines(3),
          pins |-> [anode |-> <<-30, 0>>, cathode |-> <<30, 0>>]]
    [] type = "led" ->
         [geometry |-> <<"path">> \o Lines(3) \o <<"path", "path">>,
          pins |-> [anode |-> <<-30, 0>>, cathode |-> <<30, 0>>]]
    [] type = "source_v" ->
         [geometry |-> <<"circle", "text", "text", "line", "line">>,
          pins |-> [top |-> <<0, -30>>, bottom |-> <<0, 30>>]]
    [] type = "source_i" ->
         [geometry |-> <<"circle", "path", "line", "line">>,
          pins |-> [top |-> <<0, -30>>, bottom |-> <<0, 30>>]]
    [] type = "gnd" ->
         [geometry |-> <<"path">>,
          pins |-> [top |-> <<0, -10>>]]
    [] type = "opamp" ->
         [geometry |-> <<"path", "text", "text">> \o Lines(3),
          pins |-> [in_inv |-> <<-50, -15>>, in_non |-> <<-50, 15>>,
                    out |-> <<55, 0>>]]
    [] type = "transistor_npn" ->
         [geometry |-> <<"circle">> \o Lines(6) \o <<"path">>,
          pins |-> [base |-> <<-30, 0>>, collector |-> <<15, -40>>,
                    emitter |-> <<15, 40>>]]
    [] type = "transistor_pnp" ->
         [geometry |-> <<"circle">> \o Lines(6) \o <<"path">>,
          pins |-> [base |-> <<-30, 0>>, collector |-> <<15, -40>>,
                    emitter |-> <<15, 40>>]]
    [] type = "mosfet_n" ->
         [geometry |-> <<"circle">> \o Lines(9) \o <<"path">>,
          pins |-> [gate |-> <<-30, 0>>, drain |-> <<15, -40>>,
                    source |-> <<15, 40>>]]
    [] type = "mosfet_p" ->
         [geometry |-> <<"circle">> \o Lines(9) \o <<"path">>,
          pins |-> [gate |-> <<-30, 0>>, drain |-> <<15, -40>>,
                    source |-> <<15, 40>>]]
    [] type = "gate_and" ->
         [geometry |-> <<"path">> \o Lines(3),
          pins |-> [in1 |-> <<-45, -10>>, in2 |-> <<-45, 10>>,
                    out |-> <<30, 0>>]]
    [] type = "gate_nand" ->
         [geometry |-> <<"path", "circle">> \o Lines(3),
          pins |-> [in1 |-> <<-45, -10>>, in2 |-> <<-45, 10>>,
                    out |-> <<35, 0>>]]
    [] type = "gate_or" ->
         [geometry |-> <<"path">> \o Lines(3),
          pins |-> [in1 |-> <<-45, -10>>, in2 |-> <<-45, 10>>,
                    out |-> <<25, 0>>]]
    [] type = "gate_nor" ->
         [geometry |-> <<"path", "circle">> \o Lines(3),
          pins |-> [in1 |-> <<-45, -10>>, in2 |-> <<-45, 10>>,
                    out |-> <<30, 0>>]]
    [] type = "gate_not" ->
         [geometry |-> <<"path", "circle">> \o Lines(2),
          pins |-> [in |-> <<-35, 0>>, out |-> <<35, 0>>]]
    [] type = "gate_xor" ->
         [geometry |-> <<"path", "path">> \o Lines(3),
          pins |-> [in1 |-> <<-45, -10>>, in2 |-> <<-45, 10>>,
                    out |-> <<25, 0>>]]
    [] OTHER ->
         [geometry |-> <<>>, pins |-> <<>>]

(***************************************************************************)
(* The DOM the Canvas renders and the engine's references into it          *)
(* (constructor: this.svg, this.rootGroup, this.activeLayer = rootGroup).  *)
(***************************************************************************)
container == "container"
svg == "svg"
viewport == "viewport"
rootGroup == "layer"
activeLayer == rootGroup

\* Canvas' render: the dotted background <div>, the <svg> holding the pan/zoom
\* group holding the group handed to the engine, and the zoom toolbar.
CanvasDom ==
  [container |-> <<"grid", svg, "toolbar">>,
   svg |-> <<viewport>>,
   viewport |-> <<rootGroup>>,
   layer |-> <<>>]

Layer == dom[activeLayer]

(***************************************************************************)
(* TechDrawEngine.reset                                                    *)
(***************************************************************************)
removeChildren(d, node) == [d EXCEPT ![node] = <<>>]

\* reset without this.components.clear().
resetKeepingRegistry(e) ==
  [dom |-> removeChildren(e.dom, activeLayer), components |-> e.components,
   warn |-> ""]

\* reset emptying this.svg, not this.activeLayer.
resetClearingSvg(e) ==
  [dom |-> removeChildren(e.dom, svg), components |-> <<>>, warn |-> ""]

reset(e) ==
  [dom |-> removeChildren(e.dom, activeLayer), components |-> <<>>, warn |-> ""]

(***************************************************************************)
(* TechDrawEngine.add                                                      *)
(***************************************************************************)
ConfigRotate(config) == IF "rotate" \in DOMAIN config THEN config.rotate ELSE 0
ConfigLabel(config) == IF "label" \in DOMAIN config THEN config.label ELSE ""

\* The label, counter-rotated, when there is one.
labelText(label, rotate) ==
  IF label # ""
  THEN <<[tag |-> "text", textContent |-> label, rotate |-> -rotate]>>
  ELSE <<>>

\* symbolGroup with the transform list written rotate first.
symbolGroupRotateFirst(type, id, config) ==
  [tag |-> "g",
   dataId |-> id,
   transform |-> <<[fn |-> "rotate", angle |-> ConfigRotate(config)],
                   [fn |-> "translate", x |-> config.x, y |-> config.y]>>,
   children |-> drawSymbol(type).geometry
                  \o labelText(ConfigLabel(config), ConfigRotate(config))]

\* The <g> of a symbol; transform is the list translate(x,y) rotate(rotate),
\* in the order the attribute names its functions.
symbolGroup(type, id, config) ==
  [tag |-> "g",
   dataId |-> id,
   transform |-> <<[fn |-> "translate", x |-> config.x, y |-> config.y],
                   [fn |-> "rotate", angle |-> ConfigRotate(config)]>>,
   children |-> drawSymbol(type).geometry
                  \o labelText(ConfigLabel(config), ConfigRotate(config))]

\* absPin with the rotation matrix transposed (turning the other way).
absPinTransposed(offset, x, y, rotate) ==
  LET px == Num(offset[1])
      py == Num(offset[2])
      cos == MathCos(rotate)
      sin == MathSin(rotate)
      rx == FAdd(FMul(px, cos), FMul(py, sin))
      ry == FSub(FMul(py, cos), FMul(px, sin))
  IN [x |-> FAdd(Num(x), rx), y |-> FAdd(Num(y), ry)]

\* Absolute pin positions: rotate the offset, then translate.
absPin(offset, x, y, rotate) ==
  LET px == Num(offset[1])
      py == Num(offset[2])
      cos == MathCos(rotate)
      sin == MathSin(rotate)
      rx == FSub(FMul(px, cos), FMul(py, sin))
      ry == FAdd(FMul(px, sin), FMul(py, cos))
  IN [x |-> FAdd(Num(x), rx), y |-> FAdd(Num(y), ry)]

absPins(pins, x, y, rotate) ==
  [key \in DOMAIN pins |-> absPin(pins[key], x, y, rotate)]

\* Map.set that merges the pins of the entry it overwrites into the new one.
mapSetMerging(m, key, value) ==
  [i \in DOMAIN m \cup {key} |->
     IF i # key THEN m[i]
     ELSE IF key \notin DOMAIN m THEN value
     ELSE [value EXCEPT !.pins =
             [k \in DOMAIN m[key].pins \cup DOMAIN value.pins |->
                IF k \in DOMAIN value.pins THEN value.pins[k] ELSE m[key].pins[k]]]]

\* Map.set
mapSet(m, key, value) ==
  [i \in DOMAIN m \cup {key} |-> IF i = key THEN value ELSE m[i]]

\* appendChild putting the element first among the children.
prependChild(d, node, el) == [d EXCEPT ![node] = <<el>> \o @]

appendChild(d, node, el) == [d EXCEPT ![node] = Append(@, el)]

\* add that draws nothing when the type has no template.
addSkippingUnknown(e, type, id, config) ==
  LET rotate == ConfigRotate(config)
      g == symbolGroup(type, id, config)
      pins == drawSymbol(type).pins
  IN [dom |-> IF type \in SymbolTypes THEN appendChild(e.dom, activeLayer, g) ELSE e.dom,
      components |->
        mapSet(e.components, id,
               [id |-> id, type |-> type, x |-> config.x, y |-> config.y,
                rotation |-> rotate,
                pins |-> absPins(pins, config.x, config.y, rotate)]),
      warn |-> ""]

add(e, type, id, config) ==
  LET rotate == ConfigRotate(config)
      g == symbolGroup(type, id, config)
      pins == drawSymbol(type).pins
  IN [dom |-> appendChild(e.dom, activeLayer, g),
      components |->
        mapSet(e.components, id,
               [id |-> id, type |-> type, x |-> config.x, y |-> config.y,
                rotation |-> rotate,
                pins |-> absPins(pins, config.x, config.y, rotate)]),
      warn |-> ""]

(***************************************************************************)
(* TechDrawEngine.connect                                                  *)
(***************************************************************************)
\* Names every object literal inherits from Object.prototype.
ObjectPrototypeKeys ==
  {"constructor", "toString", "toLocaleString", "valueOf", "hasOwnProperty",
   "isPrototypeOf", "propertyIsEnumerable", "__proto__"}

\* c.pins[name]: the pin; an inherited member (truthy, with no x and no y);
\* or undefined.
pinLookup(pins, name) ==
  IF name \in DOMAIN pins
    THEN [truthy |-> TRUE, x |-> pins[name].x, y |-> pins[name].y]
  ELSE IF name \in ObjectPrototypeKeys
    THEN [truthy |-> TRUE, x |-> Undefined, y |-> Undefined]
  ELSE [truthy |-> FALSE, x |-> Undefined, y |-> Undefined]

\* midX, midY, deltaX, deltaY of the Manhattan routing algorithm.
midX(p1, p2) == FHalf(FAdd(p1.x, p2.x))
midY(p1, p2) == FHalf(FAdd(p1.y, p2.y))

\* deltaX without Math.abs.
deltaXSigned(p1, p2) == FSub(p1.x, p2.x)

deltaX(p1, p2) == FAbs(FSub(p1.x, p2.x))
deltaY(p1, p2) == FAbs(FSub(p1.y, p2.y))

\* route bending once, at the midpoint of the two pins.
routeThroughMidpoint(p1, p2) ==
  <<[x |-> p1.x, y |-> p1.y], [x |-> midX(p1, p2), y |-> midY(p1, p2)],
    [x |-> midX(p1, p2), y |-> midY(p1, p2)], [x |-> p2.x, y |-> p2.y]>>

\* route with the tie deltaX == deltaY given to the horizontal branch.
routeTieHorizontal(p1, p2) ==
  IF ~FGt(deltaY(p1, p2), deltaX(p1, p2))
  THEN <<[x |-> p1.x, y |-> p1.y], [x |-> midX(p1, p2), y |-> p1.y],
         [x |-> midX(p1, p2), y |-> p2.y], [x |-> p2.x, y |-> p2.y]>>
  ELSE <<[x |-> p1.x, y |-> p1.y], [x |-> p1.x, y |-> midY(p1, p2)],
         [x |-> p2.x, y |-> midY(p1, p2)], [x |-> p2.x, y |-> p2.y]>>

\* The Manhattan route: the four waypoints of the path's d attribute, each
\* coordinate the number whose decimal form the template string holds.
route(p1, p2) ==
  IF FGt(deltaX(p1, p2), deltaY(p1, p2))
  THEN <<[x |-> p1.x, y |-> p1.y], [x |-> midX(p1, p2), y |-> p1.y],
         [x |-> midX(p1, p2), y |-> p2.y], [x |-> p2.x, y |-> p2.y]>>
  ELSE <<[x |-> p1.x, y |-> p1.y], [x |-> p1.x, y |-> midY(p1, p2)],
         [x |-> p2.x, y |-> midY(p1, p2)], [x |-> p2.x, y |-> p2.y]>>

\* insertPath with the wire drawn in normal (front) order.
insertPathInFront(children, path) == Append(children, path)

\* Draw connections behind components.
insertPath(children, path) ==
  IF children # <<>> THEN <<path>> \o children ELSE Append(children, path)

solderDot(p) == [tag |-> "circle", cx |-> p.x, cy |-> p.y, r |-> 3]

connect(e, fromId, fromPin, toId, toPin) ==
  IF fromId \notin DOMAIN e.components \/ toId \notin DOMAIN e.components
  THEN [dom |-> e.dom, components |-> e.components, warn |-> "invalid IDs"]
  ELSE
    LET c1 == e.components[fromId]
        c2 == e.components[toId]
        p1 == pinLookup(c1.pins, fromPin)
        p2 == pinLookup(c2.pins, toPin)
    IN IF ~p1.truthy \/ ~p2.truthy
       THEN [dom |-> e.dom, components |-> e.components, warn |-> "invalid pins"]
       ELSE
         LET path == [tag |-> "path", d |-> route(p1, p2)]
             withPath == insertPath(e.dom[activeLayer], path)
         IN [dom |-> [e.dom EXCEPT ![activeLayer] =
                        withPath \o <<solderDot(p1), solderDot(p2)>>],
             components |-> e.components,
             warn |-> ""]

(***************************************************************************)
(* TechDrawEngine.getExportSVG: this.svg.outerHTML, the tree under <svg>   *)
(* flattened in document order.                                            *)
(***************************************************************************)
RECURSIVE outerHTML(_, _, _)
outerHTML(d, t, node) ==
  LET kids == d[node]
      open == IF node = viewport
              THEN <<[tag |-> "g", transform |-> t]>>
              ELSE <<[tag |-> IF node = svg THEN "svg" ELSE "g"]>>
      Inner[i \in 0..Len(kids)] ==
        IF i = 0 THEN <<>>
        ELSE Inner[i - 1] \o
               (IF node = rootGroup
                THEN <<kids[i]>>
                ELSE outerHTML(d, t, kids[i]))
  IN open \o Inner[Len(kids)] \o <<[tag |-> "/"]>>

getExportSVG(e, t) == outerHTML(e.dom, t, svg)

(***************************************************************************)
(* The engine's state, and its four operations as the caller's steps.      *)
(***************************************************************************)
Engine == [dom |-> dom, components |-> components]

Groups(children) == SelectSeq(children, LAMBDA el : el.tag = "g")

canvasVars == <<transform, isDragging, dragStart>>
hostVars == <<messages, isLoading, generatedCode, pending>>

\* add on a sink that holds fewer than maxPrims primitives.
AddWithin(type, id, config, maxPrims) ==
  /\ Len(Layer) < maxPrims
  /\ Len(Groups(Layer)) < MaxGroups
  /\ LET e == add(Engine, type, id, config)
     IN /\ dom' = e.dom
        /\ components' = e.components
  /\ last' = [op |-> "add", type |-> type, id |-> id, config |-> config]
  /\ UNCHANGED <<canvasVars, hostVars>>

Add(type, id, config) == AddWithin(type, id, config, MaxPrims)

\* connect that leaves at most maxPrims primitives in the sink.
ConnectWithin(fromId, fromPin, toId, toPin, maxPrims) ==
  LET e == connect(Engine, fromId, fromPin, toId, toPin)
  IN /\ Len(e.dom[activeLayer]) <= maxPrims
     /\ dom' = e.dom
     /\ components' = e.components
     /\ last' = [op |-> "connect", fromId |-> fromId, fromPin |-> fromPin,
                 toId |-> toId, toPin |-> toPin, warn |-> e.warn]
     /\ UNCHANGED <<canvasVars, hostVars>>

Connect(fromId, fromPin, toId, toPin) ==
  ConnectWithin(fromId, fromPin, toId, toPin, MaxPrims)

Reset ==
  /\ LET e == reset(Engine)
     IN /\ dom' = e.dom
        /\ components' = e.components
  /\ last' = [op |-> "reset", removed |-> Len(Layer)]
  /\ UNCHANGED <<canvasVars, hostVars>>

GetExportSVG ==
  /\ last' = [op |-> "getExportSVG", result |-> getExportSVG(Engine, transform)]
  /\ UNCHANGED <<dom, components, canvasVars, hostVars>>

\* The welcome message the transcript starts with.
INITIAL_MESSAGE == [role |-> "ai", content |-> "Hello!", prompt |-> ""]

(***************************************************************************)
(* Spec: one caller driving a fresh engine with any sequence of calls.     *)
(***************************************************************************)
Ids == {"r1", "r2"}
PinArgs == {"left", "right", "constructor"}

AddCalls ==
  {[type |-> "resistor", id |-> "r1", config |-> [x |-> -100, y |-> 0]],
   [type |-> "resistor", id |-> "r2", config |-> [x |-> 100, y |-> 0]],
   [type |-> "source_v", id |-> "r1",
    config |-> [x |-> 0, y |-> -100, label |-> "5V"]],
   [type |-> "resistor", id |-> "r2",
    config |-> [x |-> 0, y |-> 100, rotate |-> 90]],
   [type |-> "arduino_uno", id |-> "r2", config |-> [x |-> 100, y |-> 0]]}

\* The state once Canvas and App have mounted and the engine is constructed.
\* The viewport is centred on a container of no extent (clientWidth = 0).
Init ==
  /\ dom = CanvasDom
  /\ components = <<>>
  /\ last = [op |-> "new"]
  /\ transform = [x |-> 0, y |-> 0, scale |-> 1]
  /\ isDragging = FALSE
  /\ dragStart = [x |-> 0, y |-> 0]
  /\ messages = <<INITIAL_MESSAGE>>
  /\ isLoading = FALSE
  /\ generatedCode = ""
  /\ pending = <<>>

Next ==
  \/ \E c \in AddCalls : Add(c.type, c.id, c.config)
  \/ \E fromId, toId \in Ids, fromPin, toPin \in PinArgs :
       Connect(fromId, fromPin, toId, toPin)
  \/ Reset
  \/ GetExportSVG

Spec == Init /\ [][Next]_vars

(***************************************************************************)
(* Canvas: panning by dragging (handleMouseDown / Move / Up).              *)
(***************************************************************************)
MaxPan == 40      \* how far the model pans the viewport

handleMouseDown(clientX, clientY) ==
  /\ isDragging' = TRUE
  /\ dragStart' = [x |-> clientX - transform.x, y |-> clientY - transform.y]
  /\ last' = [op |-> "handleMouseDown"]
  /\ UNCHANGED <<dom, components, transform, hostVars>>

handleMouseMove(clientX, clientY) ==
  /\ Abs(clientX - dragStart.x) <= MaxPan
  /\ Abs(clientY - dragStart.y) <= MaxPan
  /\ transform' = IF ~isDragging THEN transform
                  ELSE [transform EXCEPT !.x = clientX - dragStart.x,
                                         !.y = clientY - dragStart.y]
  /\ last' = [op |-> "handleMouseMove"]
  /\ UNCHANGED <<dom, components, isDragging, dragStart, hostVars>>

handleMouseUp ==
  /\ isDragging' = FALSE
  /\ last' = [op |-> "handleMouseUp"]
  /\ UNCHANGED <<dom, components, transform, dragStart, hostVars>>

(***************************************************************************)
(* CanvasSpec: a small drawing on a canvas the user pans.                  *)
(***************************************************************************)
MouseXY == {0, 40}

CanvasAddCalls ==
  {[type |-> "resistor", id |-> "r1", config |-> [x |-> -100, y |-> 0]],
   [type |-> "gnd", id |-> "r1", config |-> [x |-> 0, y |-> 100, label |-> "GND"]]}

CanvasNext ==
  \/ \E c \in CanvasAddCalls : Add(c.type, c.id, c.config)
  \/ \E fromPin, toPin \in {"left", "right"} : Connect("r1", fromPin, "r1", toPin)
  \/ Reset
  \/ GetExportSVG
  \/ \E clientX \in MouseXY : handleMouseDown(clientX, 0)
  \/ \E clientX \in MouseXY : handleMouseMove(clientX, 0)
  \/ handleMouseUp

CanvasSpec == Init /\ [][CanvasNext]_vars

(***************************************************************************)
(* LibSpec: every type of the library (and some without a template)        *)
(* placed, and placed again, under one id.                                 *)
(***************************************************************************)
LibTypes == ComponentType \cup {"battery"}

LibAddCalls ==
  {[type |-> t, id |-> "u1", config |-> [x |-> 0, y |-> 0]] : t \in LibTypes}
    \cup
  {[type |-> t, id |-> "u1",
    config |-> [x |-> 100, y |-> -100, rotate |-> 90, label |-> "U1"]] :
     t \in {"resistor", "gnd", "opamp", "gate_not", "ic_555"}}

LibNext ==
  \/ \E c \in LibAddCalls : Add(c.type, c.id, c.config)
  \/ \E fromPin, toPin \in {"out", "top"} : Connect("u1", fromPin, "u1", toPin)
  \/ Reset

LibSpec == Init /\ [][LibNext]_vars

(***************************************************************************)
(* PinSpec: one component of any type placed on an empty canvas, at the    *)
(* origin or away from it, unrotated or turned by quarter turns.           *)
(***************************************************************************)
Rotations == {0, 90, 180, 270, 360, -90}
Positions == {<<0, 0>>, <<100, -100>>}

PinAddCalls ==
  {[type |-> t, id |-> "u1", config |-> [x |-> pos[1], y |-> pos[2]]] :
     t \in LibTypes, pos \in Positions}
    \cup
  {[type |-> t, id |-> "u1",
    config |-> [x |-> pos[1], y |-> pos[2], rotate |-> r]] :
     t \in LibTypes, pos \in Positions, r \in Rotations}

PinNext ==
  \/ \E c \in PinAddCalls : Layer = <<>> /\ Add(c.type, c.id, c.config)
  \/ Reset

PinSpec == Init /\ [][PinNext]_vars

(***************************************************************************)
(* WireSpec: two resistors and up to two wires between their pins, drawn   *)
(* in any order.                                                           *)
(***************************************************************************)
MaxWirePrims == 8     \* primitives in the active layer, under WireSpec

WireAddCalls ==
  {[type |-> "resistor", id |-> "r1", config |-> [x |-> -100, y |-> 0]],
   [type |-> "resistor", id |-> "r2", config |-> [x |-> 100, y |-> 0]]}

WireNext ==
  \/ \E c \in WireAddCalls : AddWithin(c.type, c.id, c.config, MaxWirePrims)
  \/ \E fromId, toId \in Ids, toPin \in {"left", "right"} :
       ConnectWithin(fromId, "right", toId, toPin, MaxWirePrims)
  \/ Reset

WireSpec == Init /\ [][WireNext]_vars

(***************************************************************************)
(* RouteSpec: two components side by side or stacked, unrotated or turned  *)
(* by a quarter, wired pin to pin.                                         *)
(***************************************************************************)
RouteAddCalls ==
  {[type |-> "resistor", id |-> "r1", config |-> [x |-> -100, y |-> 0]],
   [type |-> "resistor", id |-> "r2", config |-> [x |-> 100, y |-> 0]],
   [type |-> "source_v", id |-> "r1", config |-> [x |-> 0, y |-> -100]],
   [type |-> "source_v", id |-> "r2", config |-> [x |-> 0, y |-> 100]],
   [type |-> "resistor", id |-> "r1",
    config |-> [x |-> 0, y |-> -100, rotate |-> 90]],
   [type |-> "resistor", id |-> "r2",
    config |-> [x |-> 0, y |-> 100, rotate |-> 270]]}

RoutePinArgs == {"left", "right", "top", "bottom"}

RouteNext ==
  \/ \E c \in RouteAddCalls : Add(c.type, c.id, c.config)
  \/ \E toId \in Ids, fromPin, toPin \in RoutePinArgs :
       Connect("r1", fromPin, toId, toPin)
  \/ Reset

RouteSpec == Init /\ [][RouteNext]_vars

(***************************************************************************)
(* App: the host that asks the AI service for code and runs it on the      *)
(* engine.                                                                 *)
(***************************************************************************)
MaxPending == 2     \* generation requests in flight
MaxMessages == 7    \* chat messages in the transcript

\* Generated code, as the instructions it issues on TechDraw when run.  An
\* instruction "throw" is a statement that throws: a call of a method the
\* engine does not have, or add without its config argument.
Codes == {"divider", "led", "typo", "nocfg", "syntax"}

Instructions(code) ==
  CASE code = "divider" ->
         <<[op |-> "add", type |-> "resistor", id |-> "r1",
            config |-> [x |-> -100, y |-> 0]],
           [op |-> "add", type |-> "resistor", id |-> "r2",
            config |-> [x |-> 100, y |-> 0]],
           [op |-> "connect", fromId |-> "r1", fromPin |-> "right",
            toId |-> "r2", toPin |-> "left"]>>
    [] code = "led" ->
         <<[op |-> "add", type |-> "led", id |-> "r3",
            config |-> [x |-> 0, y |-> 0, rotate |-> 90]]>>
    [] code = "typo" ->
         <<[op |-> "add", type |-> "source_v", id |-> "r1",
            config |-> [x |-> 0, y |-> -100, label |-> "5V"]],
           [op |-> "add", type |-> "gnd", id |-> "r2",
            config |-> [x |-> 0, y |-> 100]],
           [op |-> "throw"],
           [op |-> "add", type |-> "led", id |-> "r3",
            config |-> [x |-> 100, y |-> 0]]>>
    [] code = "nocfg" ->
         <<[op |-> "throw"],
           [op |-> "add", type |-> "resistor", id |-> "r1",
            config |-> [x |-> 0, y |-> 0]]>>
    [] OTHER -> <<>>

\* new Function('TechDraw', code) throws a SyntaxError.
IsSyntaxError(code) == code = "syntax"

call(e, instr) ==
  IF instr.op = "add" THEN add(e, instr.type, instr.id, instr.config)
  ELSE connect(e, instr.fromId, instr.fromPin, instr.toId, instr.toPin)

\* runCircuit(engine): the instructions in order, up to the first that
\* throws.  calls counts the engine calls that completed.
RECURSIVE runFrom(_, _, _)
runFrom(e, body, i) ==
  IF i > Len(body)
  THEN [dom |-> e.dom, components |-> e.components, thrown |-> FALSE,
        calls |-> i - 1]
  ELSE IF body[i].op = "throw"
  THEN [dom |-> e.dom, components |-> e.components, thrown |-> TRUE,
        calls |-> i - 1]
  ELSE runFrom(call(e, body[i]), body, i + 1)

\* runCircuit that carries on with the next statement after one that throws.
RECURSIVE runPastThrow(_, _, _)
runPastThrow(e, body, i) ==
  IF i > Len(body)
  THEN [dom |-> e.dom, components |-> e.components, thrown |-> FALSE,
        calls |-> i - 1]
  ELSE IF body[i].op = "throw"
  THEN LET r == runPastThrow(e, body, i + 1)
       IN [r EXCEPT !.thrown = TRUE, !.calls = i - 1]
  ELSE runPastThrow(call(e, body[i]), body, i + 1)

runCircuitPastThrow(e, code) == runPastThrow(e, Instructions(code), 1)

runCircuit(e, code) == runFrom(e, Instructions(code), 1)

ExecutionError ==
  [role |-> "ai", content |-> "Error: The generated code was invalid.",
   prompt |-> ""]

\* executeCode whose catch block resets the engine.
executeCodeRollingBack(e, msgs, code) ==
  LET clean == reset(e)
      r == IF IsSyntaxError(code)
           THEN [dom |-> clean.dom, components |-> clean.components,
                 thrown |-> TRUE, calls |-> 0]
           ELSE runCircuit(clean, code)
  IN IF r.thrown
     THEN [dom |-> clean.dom, components |-> clean.components,
           thrown |-> TRUE, calls |-> r.calls,
           messages |-> Append(msgs, ExecutionError)]
     ELSE [dom |-> r.dom, components |-> r.components, thrown |-> FALSE,
           calls |-> r.calls, messages |-> msgs]

\* executeCode without the reset before the run.
executeCodeWithoutReset(e, msgs, code) ==
  LET r == IF IsSyntaxError(code)
           THEN [dom |-> e.dom, components |-> e.components,
                 thrown |-> TRUE, calls |-> 0]
           ELSE runCircuit(e, code)
  IN [dom |-> r.dom, components |-> r.components, thrown |-> r.thrown,
      calls |-> r.calls,
      messages |-> IF r.thrown THEN Append(msgs, ExecutionError) ELSE msgs]

\* executeCode: try { reset; new Function; runCircuit } catch { report }.
executeCode(e, msgs, code) ==
  LET clean == reset(e)
      r == IF IsSyntaxError(code)
           THEN [dom |-> clean.dom, components |-> clean.components,
                 thrown |-> TRUE, calls |-> 0]
           ELSE runCircuit(clean, code)
  IN [dom |-> r.dom, components |-> r.components, thrown |-> r.thrown,
      calls |-> r.calls,
      messages |-> IF r.thrown THEN Append(msgs, ExecutionError) ELSE msgs]

RemoveAt(seq, i) == SubSeq(seq, 1, i - 1) \o SubSeq(seq, i + 1, Len(seq))

\* handleSendMessage up to its await.
handleSendMessage(text) ==
  /\ Len(pending) < MaxPending
  /\ Len(messages) + 1 + 2 * (Len(pending) + 1) <= MaxMessages
  /\ messages' = Append(messages, [role |-> "user", content |-> text,
                                   prompt |-> text])
  /\ isLoading' = TRUE
  /\ pending' = Append(pending, text)
  /\ last' = [op |-> "handleSendMessage", prompt |-> text, posted |-> <<>>]
  /\ UNCHANGED <<dom, components, canvasVars, generatedCode>>

\* ChatInterface.handleSubmit: ignored while loading or when the input is blank.
handleSubmit(input) ==
  /\ input # ""
  /\ ~isLoading
  /\ handleSendMessage(input)

\* handleSendMessage after generateSchematicCode resolved with code.
generateResolved(i, code) ==
  LET text == pending[i]
      r == executeCode(Engine, messages, code)
  IN /\ generatedCode' = code
     /\ dom' = r.dom
     /\ components' = r.components
     /\ messages' = Append(r.messages,
                           [role |-> "ai", content |-> "I've generated the schematic",
                            prompt |-> text])
     /\ isLoading' = FALSE
     /\ pending' = RemoveAt(pending, i)
     /\ last' = [op |-> "executeCode", code |-> code, prompt |-> text,
                 thrown |-> r.thrown, calls |-> r.calls,
                 posted |-> <<[type |-> "PROMPTCAD_GENERATED", code |-> code,
                               prompt |-> text]>>]
     /\ UNCHANGED canvasVars

\* handleSendMessage after generateSchematicCode rejected.
generateRejected(i) ==
  /\ messages' = Append(messages,
                        [role |-> "ai", content |-> "Sorry, I encountered an error",
                         prompt |-> ""])
  /\ isLoading' = FALSE
  /\ pending' = RemoveAt(pending, i)
  /\ last' = [op |-> "generateRejected", prompt |-> pending[i], posted |-> <<>>]
  /\ UNCHANGED <<dom, components, canvasVars, generatedCode>>

handleClear ==
  /\ LET e == reset(Engine)
     IN /\ dom' = e.dom
        /\ components' = e.components
  /\ generatedCode' = ""
  /\ messages' = <<INITIAL_MESSAGE>>
  /\ last' = [op |-> "handleClear", removed |-> Len(Layer),
              posted |-> <<[type |-> "PROMPTCAD_CLEARED"]>>]
  /\ UNCHANGED <<canvasVars, isLoading, pending>>

handleExport ==
  LET svgContent == getExportSVG(Engine, transform)
  IN /\ last' = [op |-> "handleExport", result |-> svgContent,
                 posted |-> <<[type |-> "PROMPTCAD_EXPORTED"]>>]
     /\ UNCHANGED <<dom, components, canvasVars, hostVars>>

\* The window "message" listener.
handleExternalMessage(type, prompt) ==
  CASE type = "PROMPTCAD_CMD_GENERATE" /\ prompt # "" -> handleSendMessage(prompt)
    [] type = "PROMPTCAD_CMD_CLEAR" -> handleClear
    [] type = "PROMPTCAD_CMD_EXPORT" -> handleExport
    [] type = "PROMPTCAD_CMD_PING" ->
         /\ last' = [op |-> "handleExternalMessage",
                     posted |-> <<[type |-> "PROMPTCAD_PONG"]>>]
         /\ UNCHANGED <<dom, components, canvasVars, hostVars>>
    [] OTHER -> UNCHANGED vars

(***************************************************************************)
(* HostSpec: the App with its user, its embedding page and the AI service. *)
(***************************************************************************)
Prompts == {"amp", "adder"}

ExternalTypes ==
  {"PROMPTCAD_CMD_GENERATE", "PROMPTCAD_CMD_CLEAR", "PROMPTCAD_CMD_EXPORT",
   "PROMPTCAD_CMD_PING", ""}

HostNext ==
  \/ \E input \in Prompts \cup {""} : handleSubmit(input)
  \/ \E type \in ExternalTypes, prompt \in Prompts \cup {""} :
       handleExternalMessage(type, prompt)
  \/ \E i \in 1..Len(pending), code \in Codes : generateResolved(i, code)
  \/ \E i \in 1..Len(pending) : generateRejected(i)
  \/ handleClear
  \/ handleExport

HostSpec == Init /\ [][HostNext]_vars

(***************************************************************************)
(* The pin names documented for each type (Symbol Library contract).       *)
(***************************************************************************)
DocumentedPins(type) ==
  CASE type \in {"resistor", "capacitor", "inductor"} -> {"left", "right"}
    [] type \in {"diode", "led"} -> {"anode", "cathode"}
    [] type \in {"source_v", "source_i"} -> {"top", "bottom"}
    [] type = "gnd" -> {"top"}
    [] type = "opamp" -> {"in_inv", "in_non", "out"}
    [] type \in {"transistor_npn", "transistor_pnp"} ->
         {"base", "collector", "emitter"}
    [] type \in {"mosfet_n", "mosfet_p"} -> {"gate", "drain", "source"}
    [] type = "gate_not" -> {"in", "out"}
    [] type \in {"gate_and", "gate_or", "gate_nand", "gate_nor", "gate_xor"} ->
         {"in1", "in2", "out"}
    [] OTHER -> {}

\* Both ids are registered and both pin names are pins of the instances' types.
Resolves(comps, c) ==
  /\ c.fromId \in DOMAIN comps
  /\ c.toId \in DOMAIN comps
  /\ c.fromPin \in DocumentedPins(comps[c.fromId].type)
  /\ c.toPin \in DocumentedPins(comps[c.toId].type)

GroupsOf(children, id) ==
  SelectSeq(children, LAMBDA el : el.tag = "g" /\ el.dataId = id)

Last(seq) == seq[Len(seq)]

(***************************************************************************)
(* C1  Re-add replaces: adding an id that is already registered leaves one *)
(* registry entry under it, with the new type, pose and pins, and the sink *)
(* then holds only the new symbol group of that id.                        *)
(***************************************************************************)
C1_ReAddReplaces ==
  [][(last'.op = "add" /\ last'.id \in DOMAIN components) =>
       /\ DOMAIN components' = DOMAIN components
       /\ components'[last'.id].type = last'.type
       /\ components'[last'.id].x = last'.config.x
       /\ components'[last'.id].y = last'.config.y
       /\ components'[last'.id].rotation = ConfigRotate(last'.config)
       /\ DOMAIN components'[last'.id].pins = DocumentedPins(last'.type)
       /\ GroupsOf(dom'[activeLayer], last'.id)
            = <<symbolGroup(last'.type, last'.id, last'.config)>>]_vars

(***************************************************************************)
(* C2  Soft connect failure: a connect naming an unregistered id, or a pin *)
(* name that is not a pin of the instance's type, changes neither the      *)
(* registry nor the sink.                                                  *)
(***************************************************************************)
C2_SoftConnectFailure ==
  [][(last'.op = "connect" /\ ~Resolves(components, last')) =>
       (dom' = dom /\ components' = components)]_vars

(***************************************************************************)
(* C3  Successful connect emission: a connect that resolves adds three     *)
(* primitives: the wire path in front of everything that was in the sink,  *)
(* then the old primitives in their order, then a dot at p1 and a dot at   *)
(* p2; the registry and the rest of the DOM are unchanged.                 *)
(***************************************************************************)
C3_ConnectEmission ==
  [][(last'.op = "connect" /\ Resolves(components, last')) =>
       LET old == dom[activeLayer]
           new == dom'[activeLayer]
           p1 == components[last'.fromId].pins[last'.fromPin]
           p2 == components[last'.toId].pins[last'.toPin]
       IN /\ Len(new) = Len(old) + 3
          /\ new[1].tag = "path"
          /\ new[1].d[1] = p1
          /\ new[1].d[4] = p2
          /\ SubSeq(new, 2, Len(old) + 1) = old
          /\ new[Len(old) + 2] = [tag |-> "circle", cx |-> p1.x, cy |-> p1.y, r |-> 3]
          /\ new[Len(old) + 3] = [tag |-> "circle", cx |-> p2.x, cy |-> p2.y, r |-> 3]
          /\ components' = components
          /\ \A node \in DOMAIN dom \ {activeLayer} : dom'[node] = dom[node]]_vars

\* A wire routed between two components, behind both of their groups.
C3_Witness ==
  /\ last.op = "connect"
  /\ last.fromId # last.toId
  /\ Resolves(components, last)
  /\ Len(Layer) = 5
  /\ Layer[1].tag = "path"
  /\ Layer[2].tag = "g" /\ Layer[3].tag = "g"
  /\ Layer[4].tag = "circle" /\ Layer[5].tag = "circle"

(***************************************************************************)
(* C8  Lifecycle: Empty (no instance) after construction; every add ends   *)
(* Populated; every reset ends Empty; connect and getExportSVG leave the   *)
(* registry alone; a connect in Empty emits nothing.                       *)
(***************************************************************************)
Empty == DOMAIN components = {}
Populated == Cardinality(DOMAIN components) >= 1

C8_Lifecycle ==
  /\ Empty
  /\ [][/\ (last'.op = "add" => Populated')
        /\ (last'.op = "reset" => Empty')
        /\ (last'.op \in {"connect", "getExportSVG"} => components' = components)
        /\ ((last'.op = "connect" /\ Empty) => dom' = dom)]_vars

\* A reset that took a drawing with two instances back to Empty.
C8_Witness ==
  /\ last.op = "reset"
  /\ last.removed = 5
  /\ Empty

(***************************************************************************)
(* C10  Unrecognized type: add of a type without a symbol template emits   *)
(* no symbol geometry and registers an empty pin set, and every later      *)
(* connect naming that id emits nothing.                                   *)
(***************************************************************************)
Unrecognized(comps, id) == id \in DOMAIN comps /\ comps[id].type \notin SymbolTypes

C10_UnrecognizedType ==
  [][/\ (last'.op = "add" /\ last'.type \notin SymbolTypes) =>
          /\ DOMAIN components'[last'.id].pins = {}
          /\ Last(dom'[activeLayer]).children
               = labelText(ConfigLabel(last'.config), ConfigRotate(last'.config))
     /\ (last'.op = "connect"
           /\ (Unrecognized(components, last'.fromId)
                 \/ Unrecognized(components, last'.toId))) =>
          (dom' = dom /\ components' = components)]_vars

(***************************************************************************)
(* C4  Pin-set invariant: every registered instance has exactly the pin    *)
(* names the library defines for its type, whatever the config and         *)
(* whatever was registered under the id before.                            *)
(***************************************************************************)
C4_PinSetInvariant ==
  \A id \in DOMAIN components :
    DOMAIN components[id].pins = DocumentedPins(components[id].type)

\* A rotated, labelled NOT gate registered under an id that held an op-amp.
C4_Witness ==
  /\ last.op = "add"
  /\ last.type = "gate_not"
  /\ "rotate" \in DOMAIN last.config
  /\ Len(Layer) = 2
  /\ Len(Layer[1].children) = Len(drawSymbol("opamp").geometry)
  /\ DOMAIN components["u1"].pins = {"in", "out"}

(***************************************************************************)
(* C5  reset empties the registry and the active layer and changes nothing *)
(* else: the svg root, the viewport group and its pan/zoom transform, and  *)
(* the background grid are as they were.                                   *)
(***************************************************************************)
C5_ResetFrame ==
  [][last'.op = "reset" =>
       /\ components' = <<>>
       /\ dom'[activeLayer] = <<>>
       /\ DOMAIN dom' = DOMAIN dom
       /\ \A node \in DOMAIN dom \ {activeLayer} : dom'[node] = dom[node]
       /\ transform' = transform
       /\ isDragging' = isDragging
       /\ dragStart' = dragStart]_vars

\* A reset of a wired drawing on a panned canvas.
C5_Witness ==
  /\ last.op = "reset"
  /\ last.removed >= 4
  /\ transform.x # 0
  /\ dom[container] = <<"grid", svg, "toolbar">>
  /\ dom[svg] = <<viewport>>
  /\ dom[viewport] = <<rootGroup>>

(***************************************************************************)
(* C6  Routing rule: horizontal-dominant route when deltaX > deltaY, the   *)
(* vertical-dominant route otherwise (ties and coincident pins included);  *)
(* two 2-pin components stacked at (0,-100) and (0,100) and joined by      *)
(* their facing pins get the vertical route.                               *)
(***************************************************************************)
LastWire == last.op = "connect" /\ Resolves(components, last)

RoutingRule(p1, p2, d) ==
  LET dX == FAbs(FSub(p1.x, p2.x))
      dY == FAbs(FSub(p1.y, p2.y))
      mX == FHalf(FAdd(p1.x, p2.x))
      mY == FHalf(FAdd(p1.y, p2.y))
  IN IF FGt(dX, dY)
     THEN d = <<p1, [x |-> mX, y |-> p1.y], [x |-> mX, y |-> p2.y], p2>>
     ELSE d = <<p1, [x |-> p1.x, y |-> mY], [x |-> p2.x, y |-> mY], p2>>

VerticalRoute(p1, p2, d) ==
  LET mY == FHalf(FAdd(p1.y, p2.y))
  IN d = <<p1, [x |-> p1.x, y |-> mY], [x |-> p2.x, y |-> mY], p2>>

\* pin is the one pin of c nearest, in y, to the centre of other.
Facing(c, pin, other) ==
  \A k \in DOMAIN c.pins \ {pin} :
    FGt(FAbs(FSub(c.pins[k].y, Num(other.y))),
        FAbs(FSub(c.pins[pin].y, Num(other.y))))

StackedFacing ==
  LET c1 == components[last.fromId]
      c2 == components[last.toId]
  IN /\ last.fromId # last.toId
     /\ Cardinality(DOMAIN c1.pins) = 2
     /\ Cardinality(DOMAIN c2.pins) = 2
     /\ {<<c1.x, c1.y>>, <<c2.x, c2.y>>} = {<<0, -100>>, <<0, 100>>}
     /\ Facing(c1, last.fromPin, c2)
     /\ Facing(c2, last.toPin, c1)

\* Within floating-point rounding of 0: less than 2^-46 in magnitude.
NearZero(a) == IsNum(a) /\ a.n = 0 /\ a.h = 0 /\ Abs(a.f) < 64 * UlpOfOne

\* C6 as stated: the stacked wire has every waypoint exactly on x = 0.
C6_RoutingRuleExact ==
  LastWire =>
    LET p1 == components[last.fromId].pins[last.fromPin]
        p2 == components[last.toId].pins[last.toPin]
        d == Layer[1].d
    IN /\ RoutingRule(p1, p2, d)
       /\ StackedFacing =>
            /\ VerticalRoute(p1, p2, d)
            /\ \A i \in 1..4 : d[i].x = Num(0)

\* C6 as the code has it: the routing rule; the stacked wire takes the
\* vertical route with every waypoint within rounding of x = 0, and exactly
\* on x = 0 when neither component is rotated.
C6_RoutingRule ==
  LastWire =>
    LET c1 == components[last.fromId]
        c2 == components[last.toId]
        p1 == c1.pins[last.fromPin]
        p2 == c2.pins[last.toPin]
        d == Layer[1].d
    IN /\ RoutingRule(p1, p2, d)
       /\ StackedFacing =>
            /\ VerticalRoute(p1, p2, d)
            /\ \A i \in 1..4 : NearZero(d[i].x)
            /\ (c1.rotation = 0 /\ c2.rotation = 0) =>
                 \A i \in 1..4 : d[i].x = Num(0)

\* Two quarter-turned resistors, stacked, wired by their facing pins: the
\* waypoints are off x = 0 by a rounding error.
C6_Witness ==
  /\ LastWire
  /\ StackedFacing
  /\ components[last.fromId].rotation = 90
  /\ components[last.toId].rotation = 270
  /\ VerticalRoute(components[last.fromId].pins[last.fromPin],
                   components[last.toId].pins[last.toPin], Layer[1].d)
  /\ \A i \in 1..4 : Layer[1].d[i].x # Num(0)

(***************************************************************************)
(* C7  End-to-end horizontal case: r1 at (-100,0) and r2 at (100,0), both  *)
(* resistors, wired right to left: pins (-70,0) and (70,0), deltaY = 0,    *)
(* horizontal branch, every waypoint on y = 0 between the two pins.        *)
(***************************************************************************)
HorizontalScenario ==
  /\ last = [op |-> "connect", fromId |-> "r1", fromPin |-> "right",
             toId |-> "r2", toPin |-> "left", warn |-> ""]
  /\ Len(Layer) = 5
  /\ Layer[2] = symbolGroup("resistor", "r1", [x |-> -100, y |-> 0])
  /\ Layer[3] = symbolGroup("resistor", "r2", [x |-> 100, y |-> 0])
  /\ components["r1"].type = "resistor"
  /\ components["r2"].type = "resistor"

HorizontalCase(dx) ==
  HorizontalScenario =>
    LET p1 == components["r1"].pins["right"]
        p2 == components["r2"].pins["left"]
        d == Layer[1].d
    IN /\ p1 = [x |-> Num(-70), y |-> Num(0)]
       /\ p2 = [x |-> Num(70), y |-> Num(0)]
       /\ deltaX(p1, p2) = Num(dx)
       /\ deltaY(p1, p2) = Num(0)
       /\ FGt(deltaX(p1, p2), deltaY(p1, p2))
       /\ d = <<p1, [x |-> midX(p1, p2), y |-> p1.y],
                [x |-> midX(p1, p2), y |-> p2.y], p2>>
       /\ \A i \in 1..4 :
            /\ d[i].y = Num(0)
            /\ ~FGt(Num(-70), d[i].x)
            /\ ~FGt(d[i].x, Num(70))

\* C7 as stated: deltaX = 170.
C7_HorizontalCase170 == HorizontalCase(170)

\* C7 as the code has it: deltaX = |-70 - 70| = 140.
C7_HorizontalCase == HorizontalCase(140)

C7_Witness ==
  /\ HorizontalScenario
  /\ Layer[1].d[2] = [x |-> Num(0), y |-> Num(0)]
  /\ Layer[4] = solderDot([x |-> Num(-70), y |-> Num(0)])
  /\ Layer[5] = solderDot([x |-> Num(70), y |-> Num(0)])

(***************************************************************************)
(* C9  Partial-failure visibility: when a run throws after k engine calls, *)
(* the registry and the sink hold exactly the effect of those k calls on   *)
(* an empty engine, and they keep it until a step that issues reset.       *)
(***************************************************************************)
\* The instructions of code that come before its first throwing one.
Completed(code) ==
  LET body == Instructions(code)
      stops == {i \in 1..Len(body) : body[i].op = "throw"}
  IN IF IsSyntaxError(code) THEN <<>>
     ELSE IF stops = {} THEN body
     ELSE SubSeq(body, 1, (CHOOSE i \in stops : \A j \in stops : i <= j) - 1)

RECURSIVE EffectOf(_, _)
EffectOf(e, calls) ==
  IF calls = <<>> THEN [dom |-> e.dom, components |-> e.components]
  ELSE LET r == call(e, Head(calls))
       IN EffectOf([dom |-> r.dom, components |-> r.components], Tail(calls))

IssuesReset(op) == op \in {"executeCode", "handleClear"}

C9_PartialFailure ==
  [][/\ (last'.op = "executeCode" /\ last'.thrown) =>
          /\ last'.calls = Len(Completed(last'.code))
          /\ [dom |-> dom', components |-> components']
               = EffectOf([dom |-> CanvasDom, components |-> <<>>],
                          Completed(last'.code))
     /\ ~IssuesReset(last'.op) => (dom' = dom /\ components' = components)]_vars

\* A run that threw after two adds, still on the canvas after a later step
\* of the host.
C9_Witness ==
  /\ last.op = "handleSendMessage"
  /\ generatedCode = "typo"
  /\ ExecutionError \in {messages[i] : i \in 1..Len(messages)}
  /\ DOMAIN components = {"r1", "r2"}
  /\ Len(Layer) = 2

(***************************************************************************)
(* C11  Export is a read-only snapshot: the value getExportSVG returns     *)
(* holds the background decoration and every primitive of the sink in sink *)
(* order, depends on the sink and the decoration only (it is what a newly  *)
(* constructed canvas holding the same sink would export), and the call    *)
(* changes neither the registry nor the sink.                              *)
(***************************************************************************)
\* The primitives of the sink as they appear in an export: what lies between
\* the opening of the layer group and its closing.
ExportedSink(result) == SubSeq(result, 4, Len(result) - 3)

C11_ExportSnapshot ==
  [][last'.op = "getExportSVG" =>
       /\ \E i \in 1..Len(last'.result) : last'.result[i].tag = "grid"
       /\ ExportedSink(last'.result) = dom[activeLayer]
       /\ last'.result
            = getExportSVG([dom |-> [CanvasDom EXCEPT ![activeLayer] = dom[activeLayer]],
                            components |-> components],
                           [x |-> 0, y |-> 0, scale |-> 1])
       /\ dom' = dom
       /\ components' = components]_vars

(***************************************************************************)
(* C12  Pin placement: add registers the pin with local offset (px, py) at *)
(* (x + px*cos r - py*sin r, y + px*sin r + py*cos r), r the rotation in   *)
(* degrees, 0 when omitted; a pin at (-30,0) of a component at the origin  *)
(* turned by 90 is registered at (0,-30), the one at (30,0) at (0,30).     *)
(***************************************************************************)
\* Cosine and sine of a multiple of 90 degrees.
QuarterCos(r) == CASE r % 360 = 0 -> 1 [] r % 360 = 180 -> -1 [] OTHER -> 0
QuarterSin(r) == CASE r % 360 = 90 -> 1 [] r % 360 = 270 -> -1 [] OTHER -> 0

RotationOf(config) == IF "rotate" \in DOMAIN config THEN config.rotate ELSE 0

PlacedX(offset, config) ==
  config.x + offset[1] * QuarterCos(RotationOf(config))
           - offset[2] * QuarterSin(RotationOf(config))

PlacedY(offset, config) ==
  config.y + offset[1] * QuarterSin(RotationOf(config))
           + offset[2] * QuarterCos(RotationOf(config))

\* The double a is the integer n, to within 2^-45.
Close(a, n) == IsNum(a) /\ a.n = n /\ a.h = 0 /\ Abs(a.f) < 128 * UlpOfOne

\* C12 as stated: the registered position is the rotated offset exactly.
C12_PinPlacementExact ==
  last.op = "add" =>
    LET offsets == drawSymbol(last.type).pins
        pins == components[last.id].pins
    IN /\ DOMAIN pins = DOMAIN offsets
       /\ \A k \in DOMAIN offsets :
            /\ pins[k].x = Num(PlacedX(offsets[k], last.config))
            /\ pins[k].y = Num(PlacedY(offsets[k], last.config))

\* C12 as the code has it: the rotated offset to within rounding, and
\* exactly when the rotation is 0 or omitted.
C12_PinPlacement ==
  last.op = "add" =>
    LET offsets == drawSymbol(last.type).pins
        pins == components[last.id].pins
    IN /\ DOMAIN pins = DOMAIN offsets
       /\ \A k \in DOMAIN offsets :
            /\ Close(pins[k].x, PlacedX(offsets[k], last.config))
            /\ Close(pins[k].y, PlacedY(offsets[k], last.config))
            /\ RotationOf(last.config) = 0 =>
                 /\ pins[k].x = Num(PlacedX(offsets[k], last.config))
                 /\ pins[k].y = Num(PlacedY(offsets[k], last.config))

\* A resistor at the origin, turned by 90: its pins are a rounding error
\* off x = 0.
C12_Witness ==
  /\ last = [op |-> "add", type |-> "resistor", id |-> "u1",
             config |-> [x |-> 0, y |-> 0, rotate |-> 90]]
  /\ components["u1"].pins["left"].y = Num(-30)
  /\ components["u1"].pins["right"].y = Num(30)
  /\ components["u1"].pins["left"].x # Num(0)
  /\ Close(components["u1"].pins["left"].x, 0)

(***************************************************************************)
(* C13  Z-order invariant: every wire path in the sink comes before (is    *)
(* drawn behind) every symbol group and every solder dot, whether the      *)
(* component was added before or after the wire was routed.                *)
(***************************************************************************)
C13_ZOrder ==
  \A i, j \in 1..Len(Layer) :
    (Layer[i].tag = "path" /\ Layer[j].tag \in {"g", "circle"}) => i < j

\* Two wires and, in front of the dots of both, a resistor added after them.
C13_Witness ==
  /\ last.op = "add"
  /\ Len(Layer) = 8
  /\ Layer[1].tag = "path" /\ Layer[2].tag = "path"
  /\ Layer[3].tag = "g"
  /\ Layer[7].tag = "circle"
  /\ Layer[8].tag = "g"

(***************************************************************************)
(* C14  Every wire is an orthogonal path: four waypoints, from p1 to p2,   *)
(* each two consecutive waypoints sharing their x or their y coordinate.   *)
(***************************************************************************)
Orthogonal(d) ==
  /\ Len(d) = 4
  /\ \A i \in 1..3 : d[i].x = d[i + 1].x \/ d[i].y = d[i + 1].y

C14_OrthogonalWires ==
  /\ \A i \in 1..Len(Layer) : Layer[i].tag = "path" => Orthogonal(Layer[i].d)
  /\ LastWire =>
       /\ Layer[1].d[1] = components[last.fromId].pins[last.fromPin]
       /\ Layer[1].d[4] = components[last.toId].pins[last.toPin]

\* A wire between pins that differ in x and in y: both bends are real.
C14_Witness ==
  /\ LastWire
  /\ Layer[1].d[1].x # Layer[1].d[2].x
  /\ Layer[1].d[2].y # Layer[1].d[3].y
  /\ Layer[1].d[3].x # Layer[1].d[4].x
  /\ Layer[1].d[1].y = Layer[1].d[2].y

(***************************************************************************)
(* C15  Drawn pins coincide with registered pins: the group add emits      *)
(* carries translate(x,y) followed by rotate(r), and the image of each     *)
(* local pin offset under that transform list is the absolute position     *)
(* registered for the pin.                                                 *)
(***************************************************************************)
\* A point under one transform function, for angles that are quarter turns.
UnderFn(f, p) ==
  IF f.fn = "translate" THEN <<p[1] + f.x, p[2] + f.y>>
  ELSE <<p[1] * QuarterCos(f.angle) - p[2] * QuarterSin(f.angle),
         p[1] * QuarterSin(f.angle) + p[2] * QuarterCos(f.angle)>>

\* A point under a transform list: the rightmost function applies first.
RECURSIVE Image(_, _)
Image(list, p) ==
  IF list = <<>> THEN p ELSE UnderFn(Head(list), Image(Tail(list), p))

TranslateThenRotate(g, config) ==
  g.transform = <<[fn |-> "translate", x |-> config.x, y |-> config.y],
                  [fn |-> "rotate", angle |-> RotationOf(config)]>>

\* C15 as stated: the image is the registered position exactly.
C15_DrawnPinsExact ==
  last.op = "add" =>
    LET g == Last(Layer)
        offsets == drawSymbol(last.type).pins
        pins == components[last.id].pins
    IN /\ TranslateThenRotate(g, last.config)
       /\ \A k \in DOMAIN offsets :
            pins[k] = [x |-> Num(Image(g.transform, offsets[k])[1]),
                       y |-> Num(Image(g.transform, offsets[k])[2])]

\* C15 as the code has it: the image is the registered position to within
\* rounding, and exactly when the rotation is 0 or omitted.
C15_DrawnPins ==
  last.op = "add" =>
    LET g == Last(Layer)
        offsets == drawSymbol(last.type).pins
        pins == components[last.id].pins
    IN /\ TranslateThenRotate(g, last.config)
       /\ \A k \in DOMAIN offsets :
            /\ Close(pins[k].x, Image(g.transform, offsets[k])[1])
            /\ Close(pins[k].y, Image(g.transform, offsets[k])[2])
            /\ RotationOf(last.config) = 0 =>
                 pins[k] = [x |-> Num(Image(g.transform, offsets[k])[1]),
                            y |-> Num(Image(g.transform, offsets[k])[2])]

\* An op-amp at the origin turned by 270: its output lead is drawn at
\* (0,-55), its pin registered a rounding error beside it.
C15_Witness ==
  /\ last = [op |-> "add", type |-> "opamp", id |-> "u1",
             config |-> [x |-> 0, y |-> 0, rotate |-> 270]]
  /\ Image(Last(Layer).transform, drawSymbol("opamp").pins["out"]) = <<0, -55>>
  /\ components["u1"].pins["out"].y = Num(-55)
  /\ components["u1"].pins["out"].x # Num(0)

(***************************************************************************)
(* C16  Registry and sink are empty together: the registry has no instance *)
(* exactly when the active layer has no primitive.                         *)
(***************************************************************************)
C16_EmptyTogether == (DOMAIN components = {}) <=> (Layer = <<>>)

\* An instance of a type without a template: registered, and drawn as an
\* empty group.
C16_Witness ==
  /\ last.op = "add"
  /\ last.type = "arduino_uno"
  /\ Len(Layer) = 1
  /\ Layer[1].children = <<>>
  /\ DOMAIN components = {"r2"}

(***************************************************************************)
(* C17  Wires stay attached: a wire end, and the solder dot on it, that    *)
(* sits on a pin of a registered instance sits on that pin of the instance *)
(* registered under the id after every step that keeps the wire, also      *)
(* when the step adds the id again with another pose or type.              *)
(***************************************************************************)
\* The points at which a primitive of the sink touches pins.
WireEnds(el) ==
  IF el.tag = "path" THEN {el.d[1], el.d[4]}
  ELSE IF el.tag = "circle" THEN {[x |-> el.cx, y |-> el.cy]}
  ELSE {}

C17_WiresStayAttached ==
  [][\A i \in 1..Len(dom'[activeLayer]) :
       \A id \in DOMAIN components :
         \A k \in DOMAIN components[id].pins :
           LET el == dom'[activeLayer][i]
           IN (/\ \E j \in 1..Len(dom[activeLayer]) : dom[activeLayer][j] = el
               /\ components[id].pins[k] \in WireEnds(el))
                => /\ id \in DOMAIN components'
                   /\ k \in DOMAIN components'[id].pins
                   /\ components'[id].pins[k] \in WireEnds(el)]_vars

(***************************************************************************)
(* C18  Each run starts clean: after a run that completes without          *)
(* throwing, the registry and the sink hold exactly the effect of the      *)
(* run's instructions on an empty engine; nothing of an earlier run is     *)
(* left.                                                                   *)
(***************************************************************************)
C18_RunStartsClean ==
  [][(last'.op = "executeCode" /\ ~last'.thrown) =>
       /\ last'.calls = Len(Instructions(last'.code))
       /\ [dom |-> dom', components |-> components']
            = EffectOf([dom |-> [dom EXCEPT ![activeLayer] = <<>>],
                        components |-> <<>>],
                       Instructions(last'.code))]_vars

\* A one-LED run on a canvas where an earlier run had failed: only the LED
\* is registered and drawn.
C18_Witness ==
  /\ last.op = "executeCode"
  /\ last.code = "led"
  /\ ~last.thrown
  /\ ExecutionError \in {messages[i] : i \in 1..Len(messages)}
  /\ DOMAIN components = {"r3"}
  /\ Len(Layer) = 1

(***************************************************************************)
(* C19  Clear is not undone by a pending generation: while no prompt has   *)
(* been submitted since handleClear (the transcript, which handleClear     *)
(* empties, holds no user message), the engine is Empty and generatedCode  *)
(* is empty, also when a request submitted before the clear was awaiting   *)
(* its response at the time of the clear.                                  *)
(***************************************************************************)
NoPromptSinceClear ==
  \A i \in 1..Len(messages) : messages[i].role # "user"

C19_ClearNotUndone ==
  NoPromptSinceClear => (Empty /\ Layer = <<>> /\ generatedCode = "")

(***************************************************************************)
(* C20  isLoading tracks outstanding requests: isLoading is true whenever  *)
(* a generation request started by handleSendMessage is awaiting its       *)
(* response, also when several requests overlap.                           *)
(***************************************************************************)
C20_LoadingTracksRequests == pending # <<>> => isLoading

(***************************************************************************)
(* C21  Failure is reported without a success report: when the run of the  *)
(* generated instructions throws, the host appends the execution-error     *)
(* message and, for that prompt, appends no "I've generated the schematic" *)
(* message and posts no PROMPTCAD_GENERATED notification.                  *)
(***************************************************************************)
\* The messages a step appended to the transcript.
Appended == SubSeq(messages', Len(messages) + 1, Len(messages'))

C21_FailureWithoutSuccess ==
  [][(last'.op = "executeCode" /\ last'.thrown) =>
       /\ Len(messages') > Len(messages)
       /\ SubSeq(messages', 1, Len(messages)) = messages
       /\ \E i \in 1..Len(Appended) : Appended[i] = ExecutionError
       /\ \A i \in 1..Len(Appended) :
            Appended[i].content # "I've generated the schematic"
       /\ \A i \in 1..Len(last'.posted) :
            last'.posted[i].type # "PROMPTCAD_GENERATED"]_vars

====
